---- MODULE Spec2Model ----
(***************************************************************************)
(* Plex camera IPTV gateway (plex_cam_gateway_gui_v_7_9_1_a.py): the       *)
(* channel registry (CHANNELS, a list of mutable Channel objects), the     *)
(* GUI handlers that edit it, the pipeline spec builder                    *)
(* (ffmpeg_cmd_for_channel), the per-request supervisor (stream_generator) *)
(* and the serving-thread readers.                                         *)
(*                                                                         *)
(* Channel objects live in a heap indexed by object handles: the registry, *)
(* a running stream_generator and a reader's list copy all hold references *)
(* to the same mutable objects, as in the Python program.  The GUI-only    *)
(* status field of a channel and the ffprobe workers that report it are    *)
(* kept in the variable probe, apart from the heap; they are followed in   *)
(* SpecProbe, where the operator starts the checks with the "Check" button *)
(* (the other specifications do not follow the status cells or the checks  *)
(* a handler starts when it returns).  The table widget is not modelled.   *)
(***************************************************************************)
EXTENDS Integers, Sequences, FiniteSets, TLC

VARIABLES heap, CHANNELS, streams, reader, builder, gui, hist, server, probe

vars == <<heap, CHANNELS, streams, reader, builder, gui, hist, server, probe>>

---------------------------------------------------------------------------
(* Bounds of the model *)

\* number of Channel objects that can be alive at once
NumObjs == 3
MaxEdits == 1
\* on_add / on_add_mosaic are explored while the next id is at most this
MaxNextId == 102
\* registry length of the reorder specification
ReorderLen == 5

Objs == 1..NumObjs
NoObj == 0

---------------------------------------------------------------------------
(* Strings: identifiers and credentials are sequences of characters *)

Digits == {"0", "1", "2", "3", "4", "5", "6", "7", "8", "9"}

DigitVal(c) ==
    CASE c = "0" -> 0 [] c = "1" -> 1 [] c = "2" -> 2 [] c = "3" -> 3
      [] c = "4" -> 4 [] c = "5" -> 5 [] c = "6" -> 6 [] c = "7" -> 7
      [] c = "8" -> 8 [] c = "9" -> 9

DigitChar(d) ==
    CASE d = 0 -> "0" [] d = 1 -> "1" [] d = 2 -> "2" [] d = 3 -> "3"
      [] d = 4 -> "4" [] d = 5 -> "5" [] d = 6 -> "6" [] d = 7 -> "7"
      [] d = 8 -> "8" [] d = 9 -> "9"

\* str.isdigit(): non-empty and every character a digit
isdigit(s) == Len(s) > 0 /\ \A i \in 1..Len(s) : s[i] \in Digits

\* int(s) for a digit string
RECURSIVE IntOf(_)
IntOf(s) ==
    IF Len(s) = 0 THEN 0
    ELSE 10 * IntOf(SubSeq(s, 1, Len(s) - 1)) + DigitVal(s[Len(s)])

\* str(n) for n >= 0
RECURSIVE StrOf(_)
StrOf(n) ==
    IF n < 10 THEN <<DigitChar(n)>>
    ELSE Append(StrOf(n \div 10), DigitChar(n % 10))

Max(S) == CHOOSE x \in S : \A y \in S : y <= x

Range(s) == {s[i] : i \in 1..Len(s)}

---------------------------------------------------------------------------
(* Channel model *)

TRANSPORTS == {"Auto", "TCP", "UDP"}
AUTH_MODES == {"Auto", "Header-Basic"}

\* a source URI as urlparse sees it: scheme, userinfo, host, port
Url(scheme, user, pass, host) ==
    [scheme |-> scheme, user |-> user, pass |-> pass, host |-> host]

\* the "mosaic://<ids>" text that on_add_mosaic / on_edit_mosaic store in rtsp
MosaicUrl(ids) == [scheme |-> "mosaic", user |-> <<>>, pass |-> <<>>, host |-> ids]

\* a heap cell that holds no object
Free == [free |-> TRUE]

\* Channel.__init__
Channel(ch_id, rtsp, transport, username, password, auth_mode, audio, mosaic_sources) ==
    [id |-> ch_id,
     rtsp |-> rtsp,
     transport |-> IF transport \in TRANSPORTS THEN transport ELSE "Auto",
     username |-> username,
     password |-> password,
     auth_mode |-> IF auth_mode \in AUTH_MODES THEN auth_mode ELSE "Auto",
     transcode_audio |-> audio,
     mosaic_sources |-> mosaic_sources]

IsObj(h, o) == o \in DOMAIN h /\ h[o] # Free

\* the identifiers of a list of channel objects, by position
IdsOf(h, C) == [i \in 1..Len(C) |-> h[C[i]].id]

\* reference counting: an object nobody refers to is gone
Collect(h, live) == [o \in DOMAIN h |-> IF o \in live THEN h[o] ELSE Free]

\* the handle a newly constructed object gets
NewObj(h) ==
    CHOOSE o \in DOMAIN h : h[o] = Free /\ \A p \in DOMAIN h : h[p] = Free => o <= p

HasRoom(h) == \E o \in DOMAIN h : h[o] = Free

---------------------------------------------------------------------------
(* Python list operations, 0-based *)

Pop(s, i) == SubSeq(s, 1, i) \o SubSeq(s, i + 2, Len(s))

Insert(s, i, x) == SubSeq(s, 1, i) \o <<x>> \o SubSeq(s, i + 1, Len(s))

---------------------------------------------------------------------------
(* Writes: a handler's lock section is the list of the stores it performs, *)
(* in program order.  A store is a field assignment, the construction of   *)
(* an object, or an assignment of the registry list.                       *)

SetField(o, f, v) == [k |-> "set", o |-> o, f |-> f, v |-> v]
Construct(o, rec) == [k |-> "new", o |-> o, f |-> "", v |-> rec]
SetList(C) == [k |-> "list", o |-> NoObj, f |-> "", v |-> C]

ApplyWrite(st, w) ==
    CASE w.k = "set" -> [st EXCEPT !.heap[w.o][w.f] = w.v]
      [] w.k = "new" -> [st EXCEPT !.heap[w.o] = w.v]
      [] w.k = "list" -> [st EXCEPT !.CHANNELS = w.v]

RECURSIVE ApplyAll(_, _)
ApplyAll(st, ws) ==
    IF Len(ws) = 0 THEN st ELSE ApplyAll(ApplyWrite(st, Head(ws)), Tail(ws))

---------------------------------------------------------------------------
(* Registry lookups *)

\* {c.id: c for c in CHANNELS}.get(i): with equal ids the last entry wins
RECURSIVE id_map(_, _, _)
id_map(h, C, i) ==
    IF Len(C) = 0 THEN NoObj
    ELSE IF h[C[Len(C)]].id = i THEN C[Len(C)]
    ELSE id_map(h, SubSeq(C, 1, Len(C) - 1), i)

\* next((c for c in CHANNELS if c.id == ch_id), None): the first entry wins
RECURSIVE find_channel(_, _, _)
find_channel(h, C, i) ==
    IF Len(C) = 0 THEN NoObj
    ELSE IF h[Head(C)].id = i THEN Head(C)
    ELSE find_channel(h, Tail(C), i)

\* MainWindow._next_channel_id with max(nums) + 1 replaced by max(nums)
next_channel_id_no_increment(h, C) ==
    LET nums == {IntOf(h[C[i]].id) : i \in {j \in 1..Len(C) : isdigit(h[C[j]].id)}}
    IN  StrOf(IF nums # {} THEN Max(nums) ELSE 101)

\* MainWindow._next_channel_id
next_channel_id(h, C) ==
    LET nums == {IntOf(h[C[i]].id) : i \in {j \in 1..Len(C) : isdigit(h[C[j]].id)}}
    IN  StrOf(IF nums # {} THEN Max(nums) + 1 ELSE 101)

\* MainWindow._validate_source
validate_source(url) == url.scheme \in {"rtsp", "http", "https"}

\* str.strip() of a dialog text
RECURSIVE strip(_)
strip(s) ==
    IF Len(s) > 0 /\ Head(s) = " " THEN strip(Tail(s))
    ELSE IF Len(s) > 0 /\ s[Len(s)] = " " THEN strip(SubSeq(s, 1, Len(s) - 1))
    ELSE s

\* [s.strip() for s in src_str.split(",") if s.strip()]
RECURSIVE split_ids(_)
split_ids(parts) ==
    IF Len(parts) = 0 THEN <<>>
    ELSE IF Len(strip(Head(parts))) > 0
         THEN <<strip(Head(parts))>> \o split_ids(Tail(parts))
         ELSE split_ids(Tail(parts))

\* ids[:4]
First4(s) == SubSeq(s, 1, IF Len(s) < 4 THEN Len(s) ELSE 4)

---------------------------------------------------------------------------
(* GUI handlers: the stores of each handler, in program order.  An empty   *)
(* list is a handler that returned early.                                  *)

\* MainWindow.on_add
on_add_stores(h, C, url, transport, username, password, auth_mode, transcode_audio) ==
    IF ~validate_source(url) THEN <<>>
    ELSE LET o == NewObj(h)
         IN  <<Construct(o, Channel(next_channel_id(h, C), url, transport, username,
                                    password, auth_mode, transcode_audio, <<>>)),
               SetList(Append(C, o))>>

\* MainWindow.on_add_mosaic; parts are the comma-separated pieces typed
on_add_mosaic_stores(h, C, parts) ==
    LET ids == split_ids(parts)
    IN  IF Len(C) < 2 \/ Len(ids) < 2 THEN <<>>
        ELSE LET o == NewObj(h)
                 first == id_map(h, C, ids[1])
                 transcode_audio == IF first = NoObj THEN TRUE
                                    ELSE h[first].transcode_audio
             IN  <<Construct(o, Channel(next_channel_id(h, C), MosaicUrl(ids), "Auto",
                                        <<>>, <<>>, "Auto", transcode_audio, First4(ids))),
                   SetList(Append(C, o))>>

\* on_edit_number without the "In Use" check
on_edit_number_stores_no_in_use_check(h, C, row, text) ==
    LET new_id == strip(text)
    IN  IF ~(0 <= row /\ row < Len(C)) THEN <<>>
        ELSE IF ~isdigit(new_id) THEN <<>>
        ELSE IF ~(1 <= IntOf(new_id) /\ IntOf(new_id) <= 99999) THEN <<>>
        ELSE <<SetField(C[row + 1], "id", new_id)>>

\* MainWindow.on_edit_number
on_edit_number_stores(h, C, row, text) ==
    LET new_id == strip(text)
    IN  IF ~(0 <= row /\ row < Len(C)) THEN <<>>
        ELSE IF ~isdigit(new_id) THEN <<>>
        ELSE IF ~(1 <= IntOf(new_id) /\ IntOf(new_id) <= 99999) THEN <<>>
        ELSE IF (\E i \in 1..Len(C) : h[C[i]].id = new_id) /\ new_id # h[C[row + 1]].id
             THEN <<>>
        ELSE <<SetField(C[row + 1], "id", new_id)>>

\* MainWindow.on_edit_mosaic, reached from the context menu or on_edit_row
\* for a channel that has mosaic_sources
on_edit_mosaic_stores(h, C, row, parts) ==
    LET ids == split_ids(parts)
    IN  IF ~(0 <= row /\ row < Len(C)) THEN <<>>
        ELSE IF Len(h[C[row + 1]].mosaic_sources) = 0 THEN <<>>
        ELSE IF Len(ids) < 2 THEN <<>>
        ELSE <<SetField(C[row + 1], "mosaic_sources", First4(ids)),
               SetField(C[row + 1], "rtsp", MosaicUrl(First4(ids)))>>

\* MainWindow.on_edit_row for a channel without mosaic_sources
on_edit_row_stores(h, C, row, url, transport, auth_mode, username, password, audio) ==
    IF ~(0 <= row /\ row < Len(C)) THEN <<>>
    ELSE IF Len(h[C[row + 1]].mosaic_sources) > 0 THEN <<>>
    ELSE IF ~validate_source(url) THEN <<>>
    ELSE LET o == C[row + 1]
         IN  <<SetField(o, "rtsp", url),
               SetField(o, "transport", transport),
               SetField(o, "auth_mode", auth_mode),
               SetField(o, "username", username),
               SetField(o, "password", password),
               SetField(o, "transcode_audio", audio),
               SetField(o, "mosaic_sources", <<>>)>>

\* MainWindow.on_remove; the table selects a single row
on_remove_stores(h, C, row) ==
    IF 0 <= row /\ row < Len(C) THEN <<SetList(Pop(C, row))>> ELSE <<>>

\* MainWindow.on_toggle_audio
on_toggle_audio_stores(h, C, row) ==
    IF 0 <= row /\ row < Len(C)
    THEN <<SetField(C[row + 1], "transcode_audio", ~h[C[row + 1]].transcode_audio)>>
    ELSE <<>>

\* Channel.from_dict: the Channel of one entry of a configuration file
from_dict(d) ==
    Channel(d.id, d.rtsp, d.transport, d.username, d.password, d.auth_mode,
            d.transcode_audio, d.mosaic_sources)

\* the j-th smallest element of a set of object handles
NthHandle(S, j) == CHOOSE o \in S : Cardinality({p \in S : p < o}) = j - 1

\* MainWindow.load_from_file: CHANNELS.clear(), then one append per entry
\* of the file; the new objects take the place of objects nothing in live
\* refers to
load_from_file_stores(h, live, file) ==
    LET room == DOMAIN h \ live
        obj(i) == NthHandle(room, i)
    IN  <<SetList(<<>>)>> \o
        [k \in 1..(2 * Len(file)) |->
            IF k % 2 = 1
            THEN Construct(obj((k + 1) \div 2), from_dict(file[(k + 1) \div 2]))
            ELSE SetList([i \in 1..(k \div 2) |-> obj(i)])]

\* reorder_rows with the identifiers left on their entries
reorder_rows_stores_ids_travel(h, C, src, dst) ==
    LET n == Len(C)
    IN  IF ~(0 <= src /\ src < n /\ 0 <= dst /\ dst < n) THEN <<>>
        ELSE <<SetList(Insert(Pop(C, src), dst, C[src + 1]))>>

\* reorder_rows without the index check, the indices wrapping as Python
\* list indices do
reorder_rows_stores_no_check(h, C, src, dst) ==
    LET n == Len(C)
    IN  IF n = 0 THEN <<>>
        ELSE LET ids_before == IdsOf(h, C)
                 from == src % n
                 to == dst % n
                 moved == C[from + 1]
                 orig == Insert(Pop(C, from), to, moved)
                 lo == IF from > to THEN to ELSE from
                 hi == IF from > to THEN from ELSE to
                 span_ids == SubSeq(ids_before, lo + 1, hi + 1)
             IN  [i \in 1..Len(span_ids) |->
                      SetField(orig[lo + i], "id", span_ids[i])]
                 \o <<SetList(orig)>>

\* reorder_rows exchanging the source of the moved entry with the source of
\* the entry it is dropped on
reorder_rows_stores_swaps_urls(h, C, src, dst) ==
    LET n == Len(C)
    IN  IF ~(0 <= src /\ src < n /\ 0 <= dst /\ dst < n) THEN <<>>
        ELSE <<SetField(C[src + 1], "rtsp", h[C[dst + 1]].rtsp),
               SetField(C[dst + 1], "rtsp", h[C[src + 1]].rtsp),
               SetList(Insert(Pop(C, src), dst, C[src + 1]))>>

\* MainWindow.reorder_rows
reorder_rows_stores(h, C, src, dst) ==
    LET n == Len(C)
    IN  IF ~(0 <= src /\ src < n /\ 0 <= dst /\ dst < n) THEN <<>>
        ELSE LET ids_before == IdsOf(h, C)
                 moved == C[src + 1]
                 orig == Insert(Pop(C, src), dst, moved)
                 lo == IF src > dst THEN dst ELSE src
                 hi == IF src > dst THEN src ELSE dst
                 span_ids == SubSeq(ids_before, lo + 1, hi + 1)
             IN  [i \in 1..Len(span_ids) |->
                      SetField(orig[lo + i], "id", span_ids[i])]
                 \o <<SetList(orig)>>

---------------------------------------------------------------------------
(* Pipeline spec builder *)

\* urllib.parse.quote(s, safe=""): letters, digits and "_.-~" stay, the
\* other characters of the model's alphabet are percent-encoded
PercentCode(c) ==
    CASE c = "@" -> <<"%", "4", "0">>
      [] c = ":" -> <<"%", "3", "A">>
      [] c = "/" -> <<"%", "2", "F">>
      [] c = " " -> <<"%", "2", "0">>
      [] c = "%" -> <<"%", "2", "5">>
      [] OTHER -> <<c>>

RECURSIVE quote(_)
quote(s) == IF Len(s) = 0 THEN <<>> ELSE PercentCode(Head(s)) \o quote(Tail(s))

\* auth_url injecting the channel's credentials over embedded ones
auth_url_overrides_embedded(c) ==
    IF c.rtsp.scheme \in {"rtsp", "rtsps"}
    THEN IF Len(c.username) = 0 /\ Len(c.password) = 0
         THEN c.rtsp
         ELSE [c.rtsp EXCEPT !.user = quote(c.username), !.pass = quote(c.password)]
    ELSE c.rtsp

\* Channel.auth_url
auth_url(c) ==
    IF c.rtsp.scheme \in {"rtsp", "rtsps"}
    THEN IF Len(c.rtsp.user) > 0 \/ Len(c.rtsp.pass) > 0
            \/ (Len(c.username) = 0 /\ Len(c.password) = 0)
         THEN c.rtsp
         ELSE [c.rtsp EXCEPT !.user = quote(c.username), !.pass = quote(c.password)]
    ELSE c.rtsp

\* Channel.basic_auth_header / Channel.merged_headers: the header text, ""
\* when there is none
merged_headers(c) ==
    IF c.auth_mode = "Header-Basic"
    THEN <<[header |-> "Authorization: Basic", user |-> c.username, pass |-> c.password]>>
    ELSE <<>>

\* the -rtsp_transport flag of _ffmpeg_input_for_channel
transport_flag(c) ==
    IF c.transport = "TCP" /\ c.rtsp.scheme = "rtsp" THEN "tcp"
    ELSE IF c.transport = "UDP" /\ c.rtsp.scheme = "rtsp" THEN "udp"
    ELSE ""

\* _ffmpeg_input_for_channel: one input descriptor; src is the object it was
\* built from (NoObj for a temporary Channel)
ffmpeg_input_for_channel(c, src) ==
    [src |-> src, rtsp_transport |-> transport_flag(c),
     headers |-> merged_headers(c), url |-> auth_url(c)]

\* _mosaic_filter_and_layout: the number of stacked tiles and their places
mosaic_filter_and_layout(n_inputs) ==
    [tiles |-> IF n_inputs < 4 THEN n_inputs ELSE 4,
     layout |-> IF n_inputs = 2 THEN <<"0_0", "640_0">>
                ELSE IF n_inputs = 3 THEN <<"0_0", "640_0", "0_360">>
                ELSE <<"0_0", "640_0", "0_360", "640_360">>]

\* [id_map[i] for i in ch.mosaic_sources if i in id_map]
RECURSIVE resolve_sources(_, _, _)
resolve_sources(h, C, ms) ==
    IF Len(ms) = 0 THEN <<>>
    ELSE IF id_map(h, C, Head(ms)) # NoObj
         THEN <<id_map(h, C, Head(ms))>> \o resolve_sources(h, C, Tail(ms))
         ELSE resolve_sources(h, C, Tail(ms))

\* the single-source command line of ffmpeg_cmd_for_channel
single_cmd(c, src) ==
    [kind |-> "single",
     inputs |-> <<ffmpeg_input_for_channel(c, src)>>,
     filter |-> <<>>,
     audio_input |-> 0,
     vcodec |-> "copy",
     acodec |-> IF c.transcode_audio THEN "aac" ELSE "copy",
     fallback |-> 0]

\* the mosaic command line of ffmpeg_cmd_for_channel for resolved sources
mosaic_cmd(h, c, srcs) ==
    [kind |-> "mosaic",
     inputs |-> [i \in 1..Len(srcs) |-> ffmpeg_input_for_channel(h[srcs[i]], srcs[i])],
     filter |-> <<mosaic_filter_and_layout(Len(srcs))>>,
     audio_input |-> 0,
     vcodec |-> "libx264",
     acodec |-> IF c.transcode_audio THEN "aac" ELSE "copy",
     fallback |-> 0]

\* ffmpeg_cmd_for_channel with the fallback for fewer than 2 sources removed
ffmpeg_cmd_no_fallback(h, C, c, src) ==
    IF Len(c.mosaic_sources) >= 2
    THEN mosaic_cmd(h, c, First4(resolve_sources(h, C, c.mosaic_sources)))
    ELSE single_cmd(c, src)

\* ffmpeg_cmd_for_channel taking the sources in registry order
ffmpeg_cmd_registry_order(h, C, c, src) ==
    IF Len(c.mosaic_sources) >= 2
    THEN LET srcs == First4(SelectSeq(C, LAMBDA o : h[o].id \in Range(c.mosaic_sources)))
         IN  IF Len(srcs) < 2
             THEN [single_cmd(c, NoObj) EXCEPT !.fallback = 1]
             ELSE mosaic_cmd(h, c, srcs)
    ELSE single_cmd(c, src)

\* ffmpeg_cmd_for_channel; c is the Channel's fields, src the object (NoObj
\* for the temporary Channel of the fallback)
RECURSIVE ffmpeg_cmd_for_channel(_, _, _, _)
ffmpeg_cmd_for_channel(h, C, c, src) ==
    IF Len(c.mosaic_sources) >= 2
    THEN LET srcs == First4(resolve_sources(h, C, c.mosaic_sources))
         IN  IF Len(srcs) < 2
             THEN [ffmpeg_cmd_for_channel(h, C,
                       Channel(c.id, c.rtsp, c.transport, c.username, c.password,
                               c.auth_mode, c.transcode_audio, <<>>), NoObj)
                      EXCEPT !.fallback = @ + 1]
             ELSE mosaic_cmd(h, c, srcs)
    ELSE single_cmd(c, src)

---------------------------------------------------------------------------
(* State after construction *)

\* the viewer connections
Streams == {"v1", "v2"}

\* a connection slot on which no request has been made
NoStream ==
    [pc |-> "none", waiting |-> FALSE, ch |-> NoObj, resp |-> "none", viewer |-> "none",
     proc |-> "none", pid |-> 0, mood |-> "none", sigint |-> FALSE, closing |-> FALSE,
     any_bytes |-> FALSE, backoff |-> 0, cmd |-> <<>>]

IdleReader == [pc |-> "idle", chs |-> <<>>, rows |-> <<>>]
IdleBuilder ==
    [pc |-> "idle", ch |-> NoObj, kind |-> "", srcs |-> <<>>, inputs |-> <<>>,
     flag |-> "", hdr |-> <<>>, cmd |-> <<>>]

\* what an observer could have seen at one instant, and the handlers run
NoHist == [reader |-> {}, builder |-> {}, edits |-> 0, stopped |-> FALSE]
IdleGui == [pc |-> "idle", pending |-> <<>>]

\* the HTTP server: _HTTPD exists, the _SERVER_RUNNING flag, where the
\* server thread is, and whether shutdown() has been requested
ServerDown == [loop |-> "down", running |-> FALSE, httpd |-> FALSE, shutdown |-> FALSE]

\* the server after on_start_server, its thread in serve_forever
ServerUp == [loop |-> "serving", running |-> TRUE, httpd |-> TRUE, shutdown |-> FALSE]

\* a request is being handled
InProgress ==
    \/ \E s \in Streams : streams[s].pc \notin {"none", "done", "closed", "failed"}
    \/ reader.pc = "rows"
    \/ builder.pc \notin {"idle", "done"}

\* make_server(host, port, app) makes a server that handles one request at
\* a time on the server thread: serve_forever takes the next request when
\* the last has ended and shutdown() has not been requested
Accepting == server.loop = "serving" /\ ~server.shutdown /\ ~InProgress

\* the objects that something other than the registry refers to
\* no probe in flight, no status reported
NoProbes == [status |-> [o \in {} |-> "Idle"], workers |-> {}]

Refs ==
    {streams[s].ch : s \in Streams} \cup Range(reader.chs)
        \cup {builder.ch} \cup Range(builder.srcs)
        \cup {w.ch : w \in probe.workers}

Quiet ==
    /\ streams = [s \in Streams |-> NoStream]
    /\ reader = IdleReader
    /\ builder = IdleBuilder
    /\ gui = IdleGui
    /\ hist = NoHist
    /\ probe = NoProbes

\* MainWindow.__init__ without a config.yaml: CHANNELS = []
Init ==
    /\ heap = [o \in Objs |-> Free]
    /\ CHANNELS = <<>>
    /\ Quiet
    /\ server = ServerDown

---------------------------------------------------------------------------
(* GUI handlers as single steps: the GUI thread runs one handler at a time *)
(* (its dialogs are modal), so between two handlers nothing else writes    *)

Gui(ws) ==
    /\ gui.pc = "idle"
    /\ LET st == ApplyAll([heap |-> heap, CHANNELS |-> CHANNELS], ws)
       IN  /\ CHANNELS' = st.CHANNELS
           /\ heap' = Collect(st.heap, Range(st.CHANNELS) \cup Refs)
    /\ UNCHANGED <<streams, reader, builder, gui, hist, server, probe>>

CanAdd == HasRoom(heap) /\ IntOf(next_channel_id(heap, CHANNELS)) <= MaxNextId

on_add(url, transport, username, password, auth_mode, transcode_audio) ==
    /\ CanAdd
    /\ Gui(on_add_stores(heap, CHANNELS, url, transport, username, password,
                         auth_mode, transcode_audio))

on_add_mosaic(parts) ==
    /\ CanAdd
    /\ Gui(on_add_mosaic_stores(heap, CHANNELS, parts))

on_edit_number(row, text) == Gui(on_edit_number_stores(heap, CHANNELS, row, text))

on_edit_mosaic(row, parts) == Gui(on_edit_mosaic_stores(heap, CHANNELS, row, parts))

on_edit_row(row, url, transport, auth_mode, username, password, transcode_audio) ==
    Gui(on_edit_row_stores(heap, CHANNELS, row, url, transport, auth_mode, username,
                           password, transcode_audio))

on_remove(row) == Gui(on_remove_stores(heap, CHANNELS, row))

on_toggle_audio(row) == Gui(on_toggle_audio_stores(heap, CHANNELS, row))

reorder_rows(src, dst) == Gui(reorder_rows_stores(heap, CHANNELS, src, dst))

load_from_file(file) ==
    /\ Len(file) <= Cardinality(DOMAIN heap \ Refs)
    /\ Gui(load_from_file_stores(heap, Refs, file))

---------------------------------------------------------------------------
(* Delivery endpoint and stream supervisor.  A stream is one run of        *)
(* stream_generator, driven by the serving thread of its request: the      *)
(* generator runs until it blocks in read() or is suspended at its yield,  *)
(* and only a suspended generator can be closed.                           *)

\* source addresses
CamA == Url("rtsp", <<>>, <<>>, "camA")
CamB == Url("http", <<>>, <<>>, "camB")
BadUrl == Url("ftp", <<>>, <<>>, "camA")

\* backoff = 1.0 and the cap 10.0, in units of 1/10000 of a time unit
BackoffFloor == 10000
BackoffCap == 100000

\* the assignment to backoff without the reset after a productive attempt
next_backoff_no_reset(backoff, any_bytes) ==
    IF (backoff * 17) \div 10 < BackoffCap THEN (backoff * 17) \div 10 ELSE BackoffCap

\* backoff = 1.0 if any_bytes else min(backoff * 1.7, 10.0)
next_backoff(backoff, any_bytes) ==
    IF any_bytes THEN BackoffFloor
    ELSE IF (backoff * 17) \div 10 < BackoffCap THEN (backoff * 17) \div 10
    ELSE BackoffCap

Stream(s, rec) ==
    /\ streams' = [streams EXCEPT ![s] = rec]
    /\ UNCHANGED <<heap, CHANNELS, reader, builder, gui, hist, server, probe>>

\* auto_v answering HEAD with the stream, as it answers GET
auto_v_head_streams(s, ch_num, method) ==
    /\ streams[s].pc = "none"
    /\ Accepting
    /\ LET ch == find_channel(heap, CHANNELS, StrOf(ch_num))
       IN  IF ch = NoObj
           THEN Stream(s, [streams[s] EXCEPT !.pc = "done", !.resp = "404"])
           ELSE Stream(s, [streams[s] EXCEPT !.pc = "start", !.resp = "stream",
                                             !.ch = ch, !.viewer = "connected"])

\* auto_v: GET or HEAD /auto/v<ch_num>
auto_v(s, ch_num, method) ==
    /\ streams[s].pc = "none"
    /\ Accepting
    /\ LET ch == find_channel(heap, CHANNELS, StrOf(ch_num))
       IN  IF ch = NoObj
           THEN Stream(s, [streams[s] EXCEPT !.pc = "done", !.resp = "404"])
           ELSE IF method = "HEAD"
           THEN Stream(s, [streams[s] EXCEPT !.pc = "done", !.resp = "head"])
           ELSE Stream(s, [streams[s] EXCEPT !.pc = "start", !.resp = "stream",
                                             !.ch = ch, !.viewer = "connected"])

\* the viewer closes its connection
Disconnect(s) ==
    /\ streams[s].viewer = "connected"
    /\ streams[s].pc \notin {"closed", "failed"}
    /\ Stream(s, [streams[s] EXCEPT !.viewer = "gone"])

\* first next() of the generator: backoff = 1.0
Begin(s) ==
    /\ streams[s].pc = "start"
    /\ Stream(s, [streams[s] EXCEPT !.pc = "spawn", !.backoff = BackoffFloor])

\* the process ids of the pipeline processes that exist (running, or ended
\* and not yet waited for)
LivePids == {streams[t].pid : t \in {u \in Streams : streams[u].proc \in {"running", "dead"}}}

\* the process id the system gives a new process
NewPid == CHOOSE p \in 1..(Cardinality(Streams) + 1) :
              p \notin LivePids /\ \A q \in 1..(p - 1) : q \in LivePids

\* a supervisor that builds the pipeline spec once and starts every later
\* process from it
Spawn_reuses_cmd(s, mood) ==
    /\ streams[s].pc = "spawn"
    /\ Stream(s, [streams[s] EXCEPT
                     !.cmd = IF streams[s].proc = "none"
                             THEN ffmpeg_cmd_for_channel(heap, CHANNELS,
                                                         heap[streams[s].ch], streams[s].ch)
                             ELSE streams[s].cmd,
                     !.proc = "running", !.pid = NewPid, !.mood = mood, !.sigint = FALSE,
                     !.any_bytes = FALSE, !.pc = "read"])

\* a supervisor that attaches to the pipeline process another request for
\* the same channel left behind instead of starting one
Spawn_shared(s, mood) ==
    /\ streams[s].pc = "spawn"
    /\ LET others == {t \in Streams \ {s} : /\ streams[t].ch = streams[s].ch
                                              /\ streams[t].proc \in {"running", "dead"}}
       IN  Stream(s, [streams[s] EXCEPT
                         !.cmd = ffmpeg_cmd_for_channel(heap, CHANNELS, heap[streams[s].ch],
                                                        streams[s].ch),
                         !.proc = "running",
                         !.pid = IF others = {} THEN NewPid
                                 ELSE streams[CHOOSE t \in others : TRUE].pid,
                         !.mood = mood, !.sigint = FALSE,
                         !.any_bytes = FALSE, !.pc = "read"])

\* subprocess.Popen(ffmpeg_cmd_for_channel(ch)) succeeds; any_bytes = False
Spawn(s, mood) ==
    /\ streams[s].pc = "spawn"
    /\ Stream(s, [streams[s] EXCEPT
                     !.cmd = ffmpeg_cmd_for_channel(heap, CHANNELS, heap[streams[s].ch],
                                                    streams[s].ch),
                     !.proc = "running", !.pid = NewPid, !.mood = mood, !.sigint = FALSE,
                     !.any_bytes = FALSE, !.pc = "read"])

\* a supervisor that treats a failed start like an ended process and retries
SpawnFails_retries(s) ==
    /\ streams[s].pc = "spawn"
    /\ Stream(s, [streams[s] EXCEPT !.pc = "backoff"])

\* subprocess.Popen raises: the exception leaves the generator
SpawnFails(s) ==
    /\ streams[s].pc = "spawn"
    /\ Stream(s, [streams[s] EXCEPT
                     !.cmd = ffmpeg_cmd_for_channel(heap, CHANNELS, heap[streams[s].ch],
                                                    streams[s].ch),
                     !.pc = "failed"])

\* proc.stdout.read(1316) returns a chunk; any_bytes = True; yield chunk
ReadChunk(s) ==
    /\ streams[s].pc = "read"
    /\ streams[s].proc = "running"
    /\ Stream(s, [streams[s] EXCEPT !.any_bytes = TRUE, !.pc = "yield"])

\* the pipeline process ends by itself
ProcExit(s) ==
    /\ streams[s].proc = "running"
    /\ Stream(s, [streams[s] EXCEPT !.proc = "dead"])

\* a process that honours the interrupt ends
ExitOnSigint(s) ==
    /\ streams[s].proc = "running"
    /\ streams[s].sigint
    /\ streams[s].mood = "clean"
    /\ Stream(s, [streams[s] EXCEPT !.proc = "dead"])

\* proc.stdout.read(1316) returns b"": break, into the finally block
ReadEof(s) ==
    /\ streams[s].pc = "read"
    /\ streams[s].proc = "dead"
    /\ Stream(s, [streams[s] EXCEPT !.pc = "sigint", !.closing = FALSE])

\* proc.stdout.read(1316) returns b"" from a process that has closed its
\* output and has not ended yet
ReadEofEarly(s) ==
    /\ streams[s].pc = "read"
    /\ streams[s].proc = "running"
    /\ Stream(s, [streams[s] EXCEPT !.pc = "sigint", !.closing = FALSE])

\* the serving thread takes the yielded chunk: it writes it to the viewer
\* and calls next(), or the write fails and it closes the generator
\* (GeneratorExit at the yield, into the finally block)
Consume(s) ==
    /\ streams[s].pc = "yield"
    /\ IF streams[s].viewer = "connected"
       THEN Stream(s, [streams[s] EXCEPT !.pc = "read"])
       ELSE Stream(s, [streams[s] EXCEPT !.pc = "sigint", !.closing = TRUE])

\* proc.send_signal(signal.SIGINT): delivered, skipped for a process found
\* dead, or refused by the platform (ValueError on Windows)
SendSigint(s, supported) ==
    /\ streams[s].pc = "sigint"
    /\ IF ~supported
       THEN Stream(s, [streams[s] EXCEPT !.pc = "kill"])
       ELSE IF streams[s].proc = "running"
       THEN Stream(s, [streams[s] EXCEPT !.pc = "wait", !.sigint = TRUE])
       ELSE Stream(s, [streams[s] EXCEPT !.pc = "wait", !.proc = "reaped"])

\* where the generator goes after the finally block
AfterFinally(closing) == IF closing THEN "closed" ELSE "backoff"

\* a finally block that kills the process although it has ended in time
WaitReturns_kills(s) ==
    /\ streams[s].pc = "wait"
    /\ streams[s].proc \in {"dead", "reaped"}
    /\ Stream(s, [streams[s] EXCEPT !.proc = "reaped", !.pc = "kill"])

\* proc.wait(timeout=2) returns: the process has ended
WaitReturns(s) ==
    /\ streams[s].pc = "wait"
    /\ streams[s].proc \in {"dead", "reaped"}
    /\ Stream(s, [streams[s] EXCEPT !.proc = "reaped",
                                    !.pc = AfterFinally(streams[s].closing)])

\* a finally block that leaves a process alone when the wait times out
WaitTimeout_gives_up(s) ==
    /\ streams[s].pc = "wait"
    /\ streams[s].proc = "running"
    /\ streams[s].mood = "hung"
    /\ Stream(s, [streams[s] EXCEPT !.pc = AfterFinally(streams[s].closing)])

\* proc.wait(timeout=2) raises TimeoutExpired
WaitTimeout(s) ==
    /\ streams[s].pc = "wait"
    /\ streams[s].proc = "running"
    /\ streams[s].mood = "hung"
    /\ Stream(s, [streams[s] EXCEPT !.pc = "kill"])

\* except Exception: proc.kill()
Kill(s) ==
    /\ streams[s].pc = "kill"
    /\ Stream(s, [streams[s] EXCEPT
                     !.proc = IF streams[s].proc = "running" THEN "dead" ELSE "reaped",
                     !.pc = AfterFinally(streams[s].closing)])

\* backoff = 1.0 if any_bytes else min(backoff * 1.7, 10.0)
Backoff(s) ==
    /\ streams[s].pc = "backoff"
    /\ Stream(s, [streams[s] EXCEPT
                     !.backoff = next_backoff(streams[s].backoff, streams[s].any_bytes),
                     !.pc = "sleep"])

\* a supervisor that gives up once the delay has reached the cap
Wake_gives_up(s) ==
    /\ streams[s].pc = "sleep"
    /\ Stream(s, [streams[s] EXCEPT
                     !.pc = IF streams[s].backoff = BackoffCap THEN "closed" ELSE "spawn"])

\* time.sleep(backoff) returns
Wake(s) ==
    /\ streams[s].pc = "sleep"
    /\ Stream(s, [streams[s] EXCEPT !.pc = "spawn"])

\* one step of the stream's serving thread
Supervise(s) ==
    \/ Begin(s)
    \/ \E mood \in {"clean", "hung"} : Spawn(s, mood)
    \/ SpawnFails(s)
    \/ ReadChunk(s)
    \/ ReadEof(s)
    \/ ReadEofEarly(s)
    \/ Consume(s)
    \/ \E supported \in BOOLEAN : SendSigint(s, supported)
    \/ WaitReturns(s)
    \/ WaitTimeout(s)
    \/ Kill(s)
    \/ Backoff(s)
    \/ Wake(s)

\* the steps the thread takes without waiting for the pipeline's output
ThreadRuns(s) ==
    /\ WF_vars(Begin(s))
    /\ WF_vars(\E mood \in {"clean", "hung"} : Spawn(s, mood) \/ SpawnFails(s))
    /\ WF_vars(ReadEof(s))
    /\ WF_vars(Consume(s))
    /\ WF_vars(\E supported \in BOOLEAN : SendSigint(s, supported))
    /\ WF_vars(WaitReturns(s))
    /\ WF_vars(WaitTimeout(s))
    /\ WF_vars(Kill(s))
    /\ WF_vars(Backoff(s))
    /\ WF_vars(Wake(s))
    /\ WF_vars(ExitOnSigint(s))

---------------------------------------------------------------------------
(* SpecStream: one viewer of a served registry *)

Cam(i, url) == Channel(StrOf(i), url, "Auto", <<>>, <<>>, "Auto", TRUE, <<>>)

InitStream ==
    /\ heap = <<Cam(1, CamA), Cam(2, CamB)>>
    /\ CHANNELS = <<1, 2>>
    /\ Quiet
    /\ server = ServerUp

NextStream ==
    \/ \E ch_num \in 1..3, method \in {"GET", "HEAD"} : auto_v("v1", ch_num, method)
    \/ Disconnect("v1")
    \/ ProcExit("v1")
    \/ ExitOnSigint("v1")
    \/ Supervise("v1")

SpecStream == InitStream /\ [][NextStream]_vars /\ ThreadRuns("v1")

---------------------------------------------------------------------------
(* Server control, on the GUI thread, and the server thread's loop *)

\* a client connects and sends its tune request; the connection waits in
\* the listening socket's queue until serve_forever takes it
Arrive(s) ==
    /\ streams[s].pc = "none"
    /\ ~streams[s].waiting
    /\ server.httpd
    /\ Stream(s, [streams[s] EXCEPT !.waiting = TRUE])

Control(g, srv) ==
    /\ gui' = g
    /\ server' = srv
    /\ UNCHANGED <<heap, CHANNELS, streams, reader, builder, hist, probe>>

\* a call of start_http_server or stop_http_server returns; hist.stopped
\* tells that the last of them to return was stop_http_server
Returned(g, srv, stopped) ==
    /\ gui' = g
    /\ server' = srv
    /\ hist' = [hist EXCEPT !.stopped = stopped]
    /\ UNCHANGED <<heap, CHANNELS, streams, reader, builder, probe>>

\* start_http_server: make_server and the start of the server thread; no
\* effect when _SERVER_RUNNING is set or the port is still bound
start_http_server ==
    /\ gui.pc = "idle"
    /\ ~server.running
    /\ server.loop = "down"
    /\ Returned(gui, [loop |-> "starting", running |-> FALSE, httpd |-> TRUE,
                      shutdown |-> FALSE], FALSE)

\* _serve: _SERVER_RUNNING = True; _HTTPD.serve_forever()
serve_begin ==
    /\ server.loop = "starting"
    /\ Control(gui, [server EXCEPT !.loop = "serving", !.running = TRUE])

\* stop_http_server without _SERVER_RUNNING or without _HTTPD: the call
\* returns at once and changes nothing
stop_skip ==
    /\ gui.pc = "idle"
    /\ ~(server.running /\ server.httpd)
    /\ Returned(gui, server, TRUE)

\* stop_http_server up to _HTTPD.shutdown(), which asks the loop to end and
\* waits for it
stop_begin ==
    /\ gui.pc = "idle"
    /\ server.running
    /\ server.httpd
    /\ Control([gui EXCEPT !.pc = "stop"], [server EXCEPT !.shutdown = TRUE])

\* serve_forever sees the shutdown request between two requests and ends;
\* finally: _SERVER_RUNNING = False
serve_exit ==
    /\ server.loop = "serving"
    /\ server.shutdown
    /\ ~InProgress
    /\ Control(gui, [server EXCEPT !.loop = "down", !.running = FALSE])

\* a stop_http_server whose shutdown() returns while the loop is still
\* handling a request
stop_return_no_wait ==
    /\ gui.pc = "stop"
    /\ Control(IdleGui, ServerDown)

\* shutdown() returns after the loop has ended; join; the globals are reset
stop_return ==
    /\ gui.pc = "stop"
    /\ server.loop = "down"
    /\ Returned(IdleGui, ServerDown, TRUE)

---------------------------------------------------------------------------
(* SpecViewers: two viewers of a served registry, over pipeline processes  *)
(* that run until they are interrupted, while the operator stops and       *)
(* starts the server                                                       *)

Viewer(s) ==
    \/ Arrive(s)
    \/ \E ch_num \in 1..2 : auto_v(s, ch_num, "GET")
    \/ Begin(s)
    \/ Spawn(s, "clean")
    \/ SpawnFails(s)
    \/ ReadChunk(s)
    \/ Consume(s)
    \/ Disconnect(s)
    \/ \E supported \in BOOLEAN : SendSigint(s, supported)
    \/ ExitOnSigint(s)
    \/ WaitReturns(s)
    \/ Kill(s)

NextViewers ==
    \/ \E s \in Streams : Viewer(s)
    \/ start_http_server
    \/ serve_begin
    \/ stop_skip
    \/ stop_begin
    \/ serve_exit
    \/ stop_return

\* the server thread takes a waiting request when it is free to
ServerRuns ==
    /\ \A s \in Streams : WF_vars(\E ch_num \in 1..2 : auto_v(s, ch_num, "GET"))
    /\ WF_vars(serve_begin)
    /\ WF_vars(serve_exit)
    /\ WF_vars(stop_return)

SpecViewers ==
    /\ InitStream
    /\ [][NextViewers]_vars
    /\ \A s \in Streams : ThreadRuns(s)
    /\ ServerRuns

---------------------------------------------------------------------------
(* SpecRenumber: the operator renumbers the two cameras while viewers tune *)

\* texts typed into the "Edit Channel Number" dialog
RenumberTexts == {<<"7">>, <<"0", "7">>, <<" ", "2">>, <<"x">>}

\* channel numbers of the tune requests, /auto/v<int:ch_num>
TuneNumbers == {1, 2, 7}

NextRenumber ==
    \/ \E row \in 0..1, text \in RenumberTexts : on_edit_number(row, text)
    \/ \E s \in Streams, n \in TuneNumbers, method \in {"GET", "HEAD"} :
          auto_v(s, n, method)

SpecRenumber == InitStream /\ [][NextRenumber]_vars

---------------------------------------------------------------------------
(* SpecAuth: the operator adds one source with or without credentials and  *)
(* a viewer tunes it                                                       *)

\* source URLs typed into the "Add Source" dialog
AuthUrls ==
    {Url(scheme, user, pass, "camA") :
        scheme \in {"rtsp", "http", "ftp"},
        user \in {<<>>, <<"u">>},
        pass \in {<<>>, <<"w">>}}

\* user names and passwords typed into the "Credentials" dialogs
AuthTexts == {<<>>, <<"a">>, <<"p", "@", ":">>}

InitAuth ==
    /\ heap = <<Free>>
    /\ CHANNELS = <<>>
    /\ Quiet
    /\ server = ServerUp

NextAuth ==
    \/ \E url \in AuthUrls, username \in AuthTexts, password \in AuthTexts :
          on_add(url, "Auto", username, password, "Auto", TRUE)
    \/ auto_v("v1", 101, "GET")
    \/ Begin("v1")
    \/ Spawn("v1", "clean")

SpecAuth == InitAuth /\ [][NextAuth]_vars

---------------------------------------------------------------------------
(* SpecTune: a viewer tunes a registry of four cameras and one mosaic      *)
(* while the operator removes channels and edits the mosaic                *)

\* member lists a mosaic channel declares
TuneLists ==
    {<<StrOf(1), StrOf(2), StrOf(3), StrOf(4)>>,
     <<StrOf(3), StrOf(3), StrOf(1)>>}

\* texts typed into the "Edit Mosaic" dialog
TuneTexts ==
    {<<<<"4">>, <<" ", "2">>, <<>>, <<"3">>, <<"1">>, <<"2">>>>}

\* the channel on_add_mosaic constructs
Mosaic(i, ids) ==
    Channel(StrOf(i), MosaicUrl(ids), "Auto", <<>>, <<>>, "Auto", TRUE, First4(ids))

InitTune ==
    /\ \E ids \in TuneLists :
           heap = <<Cam(1, CamA), Cam(2, CamB), Cam(3, CamA), Cam(4, CamB), Mosaic(5, ids)>>
    /\ CHANNELS = <<1, 2, 3, 4, 5>>
    /\ Quiet
    /\ server = ServerUp

\* the operator's edits, one tune request, and its stream over pipeline
\* processes that honour the interrupt
NextTune ==
    \/ \E row \in -1..Len(CHANNELS) : on_remove(row)
    \/ \E row \in -1..Len(CHANNELS), parts \in TuneTexts : on_edit_mosaic(row, parts)
    \/ \E ch_num \in {1, 5}, method \in {"GET", "HEAD"} : auto_v("v1", ch_num, method)
    \/ Begin("v1")
    \/ Spawn("v1", "clean")
    \/ SpawnFails("v1")
    \/ ReadChunk("v1")
    \/ Consume("v1")
    \/ Disconnect("v1")
    \/ ProcExit("v1")
    \/ ReadEof("v1")
    \/ SendSigint("v1", TRUE)
    \/ ExitOnSigint("v1")
    \/ WaitReturns("v1")
    \/ Backoff("v1")
    \/ Wake("v1")

SpecTune == InitTune /\ [][NextTune]_vars

---------------------------------------------------------------------------
(* SpecEdit: the operator removes, renumbers and reorders two cameras and  *)
(* their mosaic under a stream that restarts                               *)

\* texts typed into the "Edit Mosaic" dialog
EditMosaicTexts == {<<<<"3">>, <<"1">>>>}

InitEdit ==
    /\ heap = <<Cam(1, CamA), Cam(2, CamB), Mosaic(3, <<StrOf(1), StrOf(2)>>)>>
    /\ CHANNELS = <<1, 2, 3>>
    /\ Quiet
    /\ server = ServerUp

NextEdit ==
    \/ \E row \in 0..2 : on_remove(row)
    \/ \E row \in 0..2 : on_edit_number(row, <<"7">>)
    \/ \E src \in 0..2, dst \in 0..2 : reorder_rows(src, dst)
    \/ \E row \in 0..2, parts \in EditMosaicTexts : on_edit_mosaic(row, parts)
    \/ \E ch_num \in {1, 3} : auto_v("v1", ch_num, "GET")
    \/ Begin("v1")
    \/ Spawn("v1", "clean")
    \/ ProcExit("v1")
    \/ ReadEof("v1")
    \/ SendSigint("v1", TRUE)
    \/ WaitReturns("v1")
    \/ Backoff("v1")
    \/ Wake("v1")

SpecEdit == InitEdit /\ [][NextEdit]_vars

---------------------------------------------------------------------------
(* Status checks: MainWindow.on_check_status starts one ProbeWorker per    *)
(* row; a worker keeps the row index and the Channel it was started with   *)
(* and reports through a queued signal to MainWindow.on_probe_result on    *)
(* the GUI thread                                                          *)

\* Channel.status: "Idle" from __init__ until a handler sets it
StatusOf(o) == IF o \in DOMAIN probe.status THEN probe.status[o] ELSE "Idle"

\* the status cells after CHANNELS[row].status = status for each given row;
\* _set_status ignores a row outside the registry
set_status(rows, status) ==
    LET hit == {CHANNELS[row + 1] : row \in {r \in rows : 0 <= r /\ r < Len(CHANNELS)}}
    IN  [o \in DOMAIN probe.status \cup hit |->
            IF o \in hit THEN status ELSE probe.status[o]]

Probe(p) ==
    /\ gui.pc = "idle"
    /\ probe' = p
    /\ heap' = Collect(heap, Range(CHANNELS)
                                \cup {streams[s].ch : s \in Streams}
                                \cup Range(reader.chs)
                                \cup {builder.ch} \cup Range(builder.srcs)
                                \cup {w.ch : w \in p.workers})
    /\ UNCHANGED <<CHANNELS, streams, reader, builder, gui, hist, server>>

\* MainWindow.on_check_status; found: ffprobe is on the PATH
on_check_status(found) ==
    LET rows == 0..(Len(CHANNELS) - 1)
    IN  IF ~found
        THEN Probe([probe EXCEPT !.status = set_status(rows, "Error")])
        ELSE Probe([status |-> set_status(rows, "Checking..."),
                    workers |-> probe.workers \cup
                                {[row |-> row, ch |-> CHANNELS[row + 1]] : row \in rows}])

\* ProbeWorker.run emits result(row, status, detail) and
\* MainWindow.on_probe_result stores it with _set_status
on_probe_result(w, status) ==
    /\ w \in probe.workers
    /\ Probe([status |-> set_status({w.row}, status),
              workers |-> probe.workers \ {w}])

---------------------------------------------------------------------------
(* SpecProbe: the operator checks, removes and reorders two cameras while  *)
(* the probes run                                                          *)

NextProbe ==
    \/ \E found \in BOOLEAN : on_check_status(found)
    \/ \E w \in probe.workers, status \in {"OK", "Error"} : on_probe_result(w, status)
    \/ \E row \in 0..1 : on_remove(row)
    \/ \E src \in 0..1, dst \in 0..1 : reorder_rows(src, dst)

SpecProbe == InitStream /\ [][NextProbe]_vars

---------------------------------------------------------------------------
(* Threads.  The GUI thread runs a handler's lock section store by store   *)
(* while it holds STATE_LOCK; a serving thread takes STATE_LOCK only where *)
(* the code says "with STATE_LOCK" and reads object fields outside it.     *)

\* hist with the identifier sequence and the pipeline spec of a registry
\* state added for the read and the build in progress
Observe(h, C) ==
    [hist EXCEPT
        !.reader = IF reader.pc = "rows" THEN @ \cup {IdsOf(h, C)} ELSE @,
        !.builder = IF builder.pc \in {"idle", "done"} THEN @
                    ELSE @ \cup {ffmpeg_cmd_for_channel(h, C, h[builder.ch], builder.ch)}]

\* with STATE_LOCK: the GUI thread enters the lock section of a handler;
\* the state the handler leads to counts as seen from here on
GuiEnter(ws) ==
    /\ gui.pc = "idle"
    /\ Len(ws) > 0
    /\ hist.edits < MaxEdits
    /\ gui' = [pc |-> "locked", pending |-> ws]
    /\ LET st == ApplyAll([heap |-> heap, CHANNELS |-> CHANNELS], ws)
       IN  hist' = [Observe(st.heap, st.CHANNELS) EXCEPT !.edits = @ + 1]
    /\ UNCHANGED <<heap, CHANNELS, streams, reader, builder, server, probe>>

\* the next store of the lock section; after the last the lock is released
GuiStore ==
    /\ gui.pc = "locked"
    /\ LET st == ApplyWrite([heap |-> heap, CHANNELS |-> CHANNELS], Head(gui.pending))
           rest == Tail(gui.pending)
       IN  /\ CHANNELS' = st.CHANNELS
           /\ IF Len(rest) = 0
              THEN /\ heap' = Collect(st.heap, Range(st.CHANNELS) \cup Refs)
                   /\ gui' = IdleGui
              ELSE /\ heap' = st.heap
                   /\ gui' = [gui EXCEPT !.pending = rest]
    /\ UNCHANGED <<streams, reader, builder, hist, server, probe>>

\* lineup_json / m3u: with STATE_LOCK: chs = list(CHANNELS)
lineup_snapshot ==
    /\ reader.pc \in {"idle", "done"}
    /\ Accepting
    /\ gui.pc = "idle"
    /\ reader' = [pc |-> "rows", chs |-> CHANNELS, rows |-> <<>>]
    /\ hist' = [hist EXCEPT !.reader = {IdsOf(heap, CHANNELS)}]
    /\ UNCHANGED <<heap, CHANNELS, streams, builder, gui, server, probe>>

\* for c in chs: rows.append({"GuideNumber": str(c.id), ...})
lineup_row ==
    /\ reader.pc = "rows"
    /\ Len(reader.rows) < Len(reader.chs)
    /\ reader' = [reader EXCEPT !.rows = Append(@, heap[reader.chs[Len(@) + 1]].id)]
    /\ UNCHANGED <<heap, CHANNELS, streams, builder, gui, hist, server, probe>>

\* return jsonify(rows)
lineup_return ==
    /\ reader.pc = "rows"
    /\ Len(reader.rows) = Len(reader.chs)
    /\ reader' = [reader EXCEPT !.pc = "done"]
    /\ UNCHANGED <<heap, CHANNELS, streams, builder, gui, hist, server, probe>>

Build(rec) ==
    /\ builder' = rec
    /\ UNCHANGED <<heap, CHANNELS, streams, reader, gui, hist, server, probe>>

\* stream_generator calls ffmpeg_cmd_for_channel(ch)
build_begin(ch) ==
    /\ builder.pc \in {"idle", "done"}
    /\ Accepting
    /\ gui.pc = "idle"
    /\ ch \in Range(CHANNELS)
    /\ builder' = [IdleBuilder EXCEPT !.pc = "check", !.ch = ch]
    /\ hist' = [hist EXCEPT
                   !.builder = {ffmpeg_cmd_for_channel(heap, CHANNELS, heap[ch], ch)}]
    /\ UNCHANGED <<heap, CHANNELS, streams, reader, gui, server, probe>>

\* if ch.mosaic_sources and len(ch.mosaic_sources) >= 2
build_check ==
    /\ builder.pc = "check"
    /\ IF Len(heap[builder.ch].mosaic_sources) >= 2
       THEN Build([builder EXCEPT !.pc = "resolve"])
       ELSE Build([builder EXCEPT !.pc = "flag", !.kind = "single",
                                  !.srcs = <<builder.ch>>])

\* with STATE_LOCK: srcs = [id_map[i] ...]; srcs[:4]; the fallback for
\* fewer than 2 sources copies the channel and builds its single command
build_resolve ==
    /\ builder.pc = "resolve"
    /\ gui.pc = "idle"
    /\ LET c == heap[builder.ch]
           srcs == First4(resolve_sources(heap, CHANNELS, c.mosaic_sources))
       IN  IF Len(srcs) < 2
           THEN Build([builder EXCEPT
                          !.pc = "done", !.kind = "single",
                          !.cmd = [single_cmd(Channel(c.id, c.rtsp, c.transport, c.username,
                                                      c.password, c.auth_mode,
                                                      c.transcode_audio, <<>>), NoObj)
                                      EXCEPT !.fallback = 1]])
           ELSE Build([builder EXCEPT !.pc = "flag", !.kind = "mosaic", !.srcs = srcs])

\* _ffmpeg_input_for_channel: the tests of ch.transport and ch.rtsp
build_flag ==
    /\ builder.pc = "flag"
    /\ Build([builder EXCEPT
                 !.pc = "headers",
                 !.flag = transport_flag(heap[builder.srcs[Len(builder.inputs) + 1]])])

\* _ffmpeg_input_for_channel: hdr = ch.merged_headers()
build_headers ==
    /\ builder.pc = "headers"
    /\ Build([builder EXCEPT
                 !.pc = "url",
                 !.hdr = merged_headers(heap[builder.srcs[Len(builder.inputs) + 1]])])

\* _ffmpeg_input_for_channel: parts += ["-i", ch.auth_url()]
build_url ==
    /\ builder.pc = "url"
    /\ LET src == builder.srcs[Len(builder.inputs) + 1]
           src_ref == IF builder.kind = "single" THEN builder.ch ELSE src
           input == [src |-> src_ref, rtsp_transport |-> builder.flag,
                     headers |-> builder.hdr, url |-> auth_url(heap[src])]
       IN  Build([builder EXCEPT
                     !.inputs = Append(@, input),
                     !.pc = IF Len(builder.inputs) + 1 < Len(builder.srcs)
                            THEN "flag" ELSE "audio"])

\* if ch.transcode_audio: ...; return cmd
build_audio ==
    /\ builder.pc = "audio"
    /\ Build([builder EXCEPT
                 !.pc = "done",
                 !.cmd = [kind |-> builder.kind,
                          inputs |-> builder.inputs,
                          filter |-> IF builder.kind = "mosaic"
                                     THEN <<mosaic_filter_and_layout(Len(builder.srcs))>>
                                     ELSE <<>>,
                          audio_input |-> 0,
                          vcodec |-> IF builder.kind = "mosaic" THEN "libx264" ELSE "copy",
                          acodec |-> IF heap[builder.ch].transcode_audio
                                     THEN "aac" ELSE "copy",
                          fallback |-> 0]])

---------------------------------------------------------------------------
(* SpecConc: the operator edits a registry of two cameras and one mosaic   *)
(* while a serving thread lists it and another builds a pipeline spec      *)

CamC == Url("rtsp", <<>>, <<>>, "camC")

InitConc ==
    /\ heap = <<Channel(StrOf(1), CamA, "TCP", <<>>, <<>>, "Auto", TRUE, <<>>),
                Cam(2, CamB),
                Mosaic(3, <<StrOf(1), StrOf(2)>>)>>
    /\ CHANNELS = <<1, 2, 3>>
    /\ Quiet
    /\ server = ServerUp

ConcRows == 0..(Len(CHANNELS) - 1)

NextConc ==
    \/ \E src \in ConcRows, dst \in ConcRows :
           GuiEnter(reorder_rows_stores(heap, CHANNELS, src, dst))
    \/ \E row \in ConcRows : GuiEnter(on_remove_stores(heap, CHANNELS, row))
    \/ \E row \in ConcRows : GuiEnter(on_edit_number_stores(heap, CHANNELS, row, <<"7">>))
    \/ \E row \in ConcRows :
           GuiEnter(on_edit_row_stores(heap, CHANNELS, row, CamC, "UDP", "Header-Basic",
                                       <<"u">>, <<"p">>, FALSE))
    \/ \E row \in ConcRows : GuiEnter(on_toggle_audio_stores(heap, CHANNELS, row))
    \/ \E row \in ConcRows :
           GuiEnter(on_edit_mosaic_stores(heap, CHANNELS, row, <<<<"2">>, <<"1">>>>))
    \/ GuiStore
    \/ lineup_snapshot
    \/ lineup_row
    \/ lineup_return
    \/ \E ch \in Range(CHANNELS) : build_begin(ch)
    \/ build_check
    \/ build_resolve
    \/ build_flag
    \/ build_headers
    \/ build_url
    \/ build_audio

SpecConc == InitConc /\ [][NextConc]_vars

---------------------------------------------------------------------------
(* Spec: the registry under the operator's identity operations *)

\* texts typed into the "Edit Channel Number" dialog
NumberTexts ==
    {<<"9", "9">>, <<" ", "0", "9", "9">>,
     <<"0">>, <<"1", "x">>, <<"1", "0", "0", "0", "0", "0">>}

\* comma-separated pieces typed into the mosaic dialogs
MosaicTexts ==
    {<<<<"9", "9">>, <<>>, <<" ", "1", "0", "1">>>>,
     <<<<"1", "0", "1">>>>}

Rows == -1..Len(CHANNELS)

Next ==
    \/ \E url \in {CamA, BadUrl} : on_add(url, "Auto", <<>>, <<>>, "Auto", TRUE)
    \/ \E parts \in MosaicTexts : on_add_mosaic(parts)
    \/ \E row \in Rows, text \in NumberTexts : on_edit_number(row, text)
    \/ \E row \in Rows : on_remove(row)
    \/ \E src \in Rows, dst \in Rows : reorder_rows(src, dst)

Spec == Init /\ [][Next]_vars

---------------------------------------------------------------------------
(* SpecLoad: the operator's identity operations and the loading of         *)
(* configuration files                                                     *)

\* one entry of the channels list of a configuration file
Entry(ch_id, url) ==
    [id |-> ch_id, rtsp |-> url, transport |-> "Auto", username |-> <<>>,
     password |-> <<>>, auth_mode |-> "Auto", transcode_audio |-> TRUE,
     mosaic_sources |-> <<>>]

\* configuration files: as on_save_config writes them, and edited by hand
ConfigFiles ==
    {<<Entry(<<"9", "9">>, CamA), Entry(<<"1", "0", "0">>, CamB)>>,
     <<Entry(<<"1", "0", "0">>, CamA), Entry(<<"1", "0", "0">>, CamB)>>,
     <<>>}

NextLoad ==
    \/ Next
    \/ \E file \in ConfigFiles : load_from_file(file)

SpecLoad == Init /\ [][NextLoad]_vars

---------------------------------------------------------------------------
(* SpecReorder: drag-and-drop reordering of a loaded registry *)

\* identifier layouts of a loaded registry, by position
Layout(kind, i) ==
    CASE kind = "plain" -> StrOf(i)
      [] kind = "added" -> StrOf(100 + i)
      [] kind = "padded" -> <<"0">> \o StrOf(ReorderLen + 1 - i)

InitReorder ==
    /\ \E n \in 0..ReorderLen, kind \in {"plain", "added", "padded"} :
          /\ CHANNELS = [i \in 1..n |-> i]
          /\ heap = [o \in 1..ReorderLen |->
                        IF o <= n
                        THEN Channel(Layout(kind, o), Url("rtsp", <<>>, <<>>, StrOf(o)),
                                     IF o % 2 = 0 THEN "TCP" ELSE "UDP", StrOf(o), <<>>,
                                     "Auto", o % 2 = 1,
                                     IF o = 3 THEN <<Layout(kind, 1), Layout(kind, 2)>>
                                     ELSE <<>>)
                        ELSE Free]
    /\ Quiet
    /\ server = ServerDown

NextReorder == \E src \in Rows, dst \in Rows : reorder_rows(src, dst)

SpecReorder == InitReorder /\ [][NextReorder]_vars

---------------------------------------------------------------------------
(* Registry properties *)

\* how often identifier x occurs in the registry
CountId(h, C, x) == Cardinality({i \in 1..Len(C) : h[C[i]].id = x})

\* C2: after every add (on_add, on_add_mosaic) and set_id (on_edit_number),
\* started from pairwise distinct identifiers, no two registry entries share
\* an identifier.
C2_UniqueIds ==
    \A i \in 1..Len(CHANNELS), j \in 1..Len(CHANNELS) :
        i # j => heap[CHANNELS[i]].id # heap[CHANNELS[j]].id

\* a registry that holds "99", its zero-padded spelling "099" (both set by
\* on_edit_number) and the identifier "100" that on_add derived from them
C2_Witness ==
    /\ Len(CHANNELS) = 3
    /\ \E i, j, k \in 1..3 :
          /\ heap[CHANNELS[i]].id = <<"9", "9">>
          /\ heap[CHANNELS[j]].id = <<"0", "9", "9">>
          /\ heap[CHANNELS[k]].id = <<"1", "0", "0">>

\* C17 (as stated): after every registry mutation, the loading of a
\* configuration file included, the identifiers of the registry are
\* pairwise distinct.
C17_AsStated ==
    \A x \in {heap[CHANNELS[i]].id : i \in 1..Len(CHANNELS)} :
        CountId(heap, CHANNELS, x) = 1

Ids5 == <<(<<"1">>), (<<"2">>), (<<"3">>), (<<"4">>), (<<"5">>)>>

\* C3 as stated: on identifiers [1,2,3,4,5] by position, reorder(0,3) yields
\* the identifiers [2,3,4,1,5] and reorder(3,0) yields [4,1,2,3,5], read in
\* the new entry order.
C3_AsStated ==
    [][IdsOf(heap, CHANNELS) = Ids5 =>
          /\ reorder_rows(0, 3) =>
                IdsOf(heap', CHANNELS') =
                    <<Ids5[2], Ids5[3], Ids5[4], Ids5[1], Ids5[5]>>
          /\ reorder_rows(3, 0) =>
                IdsOf(heap', CHANNELS') =
                    <<Ids5[4], Ids5[1], Ids5[2], Ids5[3], Ids5[5]>>]_vars

\* C3 amended: on identifiers [1,2,3,4,5] by position, reorder(0,3) puts the
\* entries in the order (named by their identifiers before the move)
\* 2,3,4,1,5 and reorder(3,0) in the order 4,1,2,3,5, and in both cases the
\* identifiers read in the new entry order are again [1,2,3,4,5].
C3_ReorderScenario ==
    [][IdsOf(heap, CHANNELS) = Ids5 =>
          /\ reorder_rows(0, 3) =>
                /\ CHANNELS' = <<CHANNELS[2], CHANNELS[3], CHANNELS[4],
                                 CHANNELS[1], CHANNELS[5]>>
                /\ IdsOf(heap', CHANNELS') = Ids5
          /\ reorder_rows(3, 0) =>
                /\ CHANNELS' = <<CHANNELS[4], CHANNELS[1], CHANNELS[2],
                                 CHANNELS[3], CHANNELS[5]>>
                /\ IdsOf(heap', CHANNELS') = Ids5]_vars

\* the loaded registry [1,2,3,4,5] after reorder(0,3): the object loaded
\* first now sits at position 3
C3_Witness ==
    /\ CHANNELS = <<2, 3, 4, 1, 5>>
    /\ IdsOf(heap, CHANNELS) = Ids5

\* C4: for valid indices reorder(from,to) puts the entries in list-move
\* order (the entry from from_index sits at to_index, the entries between
\* shift by one slot), the identifier at each position of the span between
\* the two indices equals the identifier that was at that position before,
\* and the multiset of identifiers is unchanged.
C4_ReorderByPosition ==
    [][\A src \in 0..(Len(CHANNELS) - 1), dst \in 0..(Len(CHANNELS) - 1) :
          reorder_rows(src, dst) =>
              LET lo == IF src < dst THEN src ELSE dst
                  hi == IF src < dst THEN dst ELSE src
              IN  /\ Len(CHANNELS') = Len(CHANNELS)
                  /\ CHANNELS'[dst + 1] = CHANNELS[src + 1]
                  /\ \A p \in 0..(Len(CHANNELS) - 1) :
                        /\ (src <= p /\ p < dst) => CHANNELS'[p + 1] = CHANNELS[p + 2]
                        /\ (dst < p /\ p <= src) => CHANNELS'[p + 1] = CHANNELS[p]
                  /\ \A p \in lo..hi :
                        heap'[CHANNELS'[p + 1]].id = heap[CHANNELS[p + 1]].id
                  /\ \A p \in 1..Len(CHANNELS) :
                        CountId(heap', CHANNELS', heap[CHANNELS[p]].id)
                            = CountId(heap, CHANNELS, heap[CHANNELS[p]].id)]_vars

\* a zero-padded registry after the third entry was dragged to the top: the
\* entries moved, the identifiers by position did not
C4_Witness ==
    /\ Len(CHANNELS) >= 4
    /\ SubSeq(CHANNELS, 1, 4) = <<3, 1, 2, 4>>
    /\ \A i \in 1..Len(CHANNELS) : heap[CHANNELS[i]].id = Layout("padded", i)

\* C18: reorder_rows changes only the order of the entries and the
\* identifiers of entries inside the span between the two positions: an
\* entry outside the span keeps its position and identifier, the registry
\* holds the same entries, and no field of any entry other than its
\* identifier changes.
C18_ReorderFrame ==
    [][\A src \in 0..(Len(CHANNELS) - 1), dst \in 0..(Len(CHANNELS) - 1) :
          reorder_rows(src, dst) =>
              LET lo == IF src < dst THEN src ELSE dst
                  hi == IF src < dst THEN dst ELSE src
              IN  /\ Range(CHANNELS') = Range(CHANNELS)
                  /\ Len(CHANNELS') = Len(CHANNELS)
                  /\ \A p \in 0..(Len(CHANNELS) - 1) :
                        (p < lo \/ hi < p) =>
                            /\ CHANNELS'[p + 1] = CHANNELS[p + 1]
                            /\ heap'[CHANNELS[p + 1]].id = heap[CHANNELS[p + 1]].id
                  /\ \A o \in Range(CHANNELS) :
                        [heap'[o] EXCEPT !.id = heap[o].id] = heap[o]]_vars

\* the second entry of five was dragged to the fourth position: the moved
\* entry carries the fourth identifier and its own source, the first and
\* the fifth entry are where they were
C18_Witness ==
    /\ CHANNELS = <<1, 3, 4, 2, 5>>
    /\ heap[2].id = Layout("added", 4)
    /\ heap[2].rtsp.host = StrOf(2)
    /\ heap[3].mosaic_sources = <<Layout("added", 1), Layout("added", 2)>>
    /\ heap[5].id = Layout("added", 5)

\* C19: with an index outside the registry, or with equal indices, the
\* stores of reorder_rows leave the registry as it is: same entries, same
\* order, same identifiers.
C19_ReorderPrecondition ==
    \A src \in -1..Len(CHANNELS), dst \in -1..Len(CHANNELS) :
        (\/ src < 0 \/ src >= Len(CHANNELS)
         \/ dst < 0 \/ dst >= Len(CHANNELS)
         \/ src = dst) =>
            ApplyAll([heap |-> heap, CHANNELS |-> CHANNELS],
                     reorder_rows_stores(heap, CHANNELS, src, dst))
                = [heap |-> heap, CHANNELS |-> CHANNELS]

\* a reordered registry on which reorder_rows with equal indices performs
\* its stores and reorder_rows with an index outside performs none
C19_Witness ==
    /\ Len(CHANNELS) = 4
    /\ CHANNELS # <<1, 2, 3, 4>>
    /\ Len(reorder_rows_stores(heap, CHANNELS, 2, 2)) = 2
    /\ Len(reorder_rows_stores(heap, CHANNELS, -1, 0)) = 0
    /\ Len(reorder_rows_stores(heap, CHANNELS, 0, 4)) = 0

\* C20: a tune request for a channel number resolves to the channel whose
\* identifier on_edit_number accepted with that value, and to no channel
\* whose identifier has another value.
C20_AsStated ==
    [][\A s \in Streams, n \in TuneNumbers :
          auto_v(s, n, "GET") =>
              /\ \A i \in 1..Len(CHANNELS) :
                    (isdigit(heap[CHANNELS[i]].id) /\ IntOf(heap[CHANNELS[i]].id) = n)
                        => streams'[s].ch = CHANNELS[i]
              /\ streams'[s].ch # NoObj => IntOf(heap[streams'[s].ch].id) = n]_vars

\* the texts of rejected and of unchanged renumberings: the dialog texts
\* and the identifiers the registry holds
EditTexts == NumberTexts \cup {heap[CHANNELS[i]].id : i \in 1..Len(CHANNELS)}

\* C21: an on_edit_number request whose stripped text is held by another
\* channel, or is not a digit string of value 1 to 99999, performs no
\* store, and a request whose text is the channel's own identifier leaves
\* heap and registry as they are.
C21_RejectionLeavesState ==
    \A row \in 0..(Len(CHANNELS) - 1), text \in EditTexts :
        LET new_id == strip(text)
            old_id == heap[CHANNELS[row + 1]].id
            held == \E i \in 1..Len(CHANNELS) :
                        i # row + 1 /\ heap[CHANNELS[i]].id = new_id
            valid == isdigit(new_id) /\ IntOf(new_id) \in 1..99999
            stores == on_edit_number_stores(heap, CHANNELS, row, text)
        IN  /\ (~valid \/ (held /\ new_id # old_id)) => stores = <<>>
            /\ (~valid \/ held \/ new_id = old_id) =>
                  ApplyAll([heap |-> heap, CHANNELS |-> CHANNELS], stores)
                      = [heap |-> heap, CHANNELS |-> CHANNELS]

\* a registry of "99" and "100" where renumbering "100" to "99" is
\* refused, renumbering "99" to "99" stores the same identifier and the
\* text "1x" is refused
C21_Witness ==
    /\ Len(CHANNELS) = 2
    /\ heap[CHANNELS[1]].id = <<"9", "9">>
    /\ heap[CHANNELS[2]].id = <<"1", "0", "0">>
    /\ on_edit_number_stores(heap, CHANNELS, 1, <<"9", "9">>) = <<>>
    /\ on_edit_number_stores(heap, CHANNELS, 0, <<"9", "9">>)
           = <<SetField(CHANNELS[1], "id", <<"9", "9">>)>>
    /\ on_edit_number_stores(heap, CHANNELS, 0, <<"1", "x">>) = <<>>

---------------------------------------------------------------------------
(* Stream supervisor properties (SpecStream) *)

\* C1 (as stated): once the viewer of a stream has disconnected, the
\* stream's pipeline process is eventually no longer running with no
\* handle left behind (it was reaped, or never created) and the supervisor
\* has stopped, whether the process honours the interrupt or is hung.
C1_AsStated ==
    (streams["v1"].viewer = "gone")
        ~> (/\ streams["v1"].proc \in {"none", "reaped"}
            /\ streams["v1"].pc \in {"closed", "failed"})

\* C22: a tune request whose number is no identifier of the registry is
\* answered 404 and a HEAD request is answered without a generator; a
\* pipeline process is spawned only on a stream that a GET request bound
\* to the registry entry its number resolved to.
C22_UnknownChannelAndSpawnOrigin ==
    /\ [](\A s \in Streams :
             (streams[s].proc # "none" \/ streams[s].pc \notin {"none", "done"})
                 => streams[s].resp = "stream" /\ streams[s].ch # NoObj)
    /\ [][\A s \in Streams, n \in 1..3 :
             LET ch == find_channel(heap, CHANNELS, StrOf(n))
             IN  /\ (\E method \in {"GET", "HEAD"} : auto_v(s, n, method)) /\ ch = NoObj
                        => /\ streams'[s].resp = "404"
                           /\ streams'[s].pc = "done"
                 /\ auto_v(s, n, "HEAD") => streams'[s].pc = "done"
                 /\ auto_v(s, n, "GET") /\ ch # NoObj
                        => /\ streams'[s].ch = ch
                           /\ streams'[s].resp = "stream"
                           /\ streams'[s].proc = "none"]_vars

\* a pipeline process runs for the stream of GET /auto/v2
C22_Witness ==
    /\ streams["v1"].proc = "running"
    /\ streams["v1"].resp = "stream"
    /\ streams["v1"].ch = 2
    /\ heap[2].id = StrOf(2)

\* C5: at every restart of stream_generator the delay is reset to the
\* floor after an attempt that relayed a byte; after an attempt that relayed
\* none it strictly increases while below the cap, never passes the cap and
\* stays at the cap once there; every delay slept is within [floor, cap].
C5_BackoffMonotone ==
    /\ [][(streams["v1"].pc = "backoff" /\ streams'["v1"].pc = "sleep") =>
            LET before == streams["v1"].backoff
                after == streams'["v1"].backoff
            IN  /\ streams["v1"].any_bytes => after = BackoffFloor
                /\ (~streams["v1"].any_bytes /\ before < BackoffCap) =>
                       (before < after /\ after <= BackoffCap)
                /\ (~streams["v1"].any_bytes /\ before = BackoffCap) =>
                       after = BackoffCap]_vars
    /\ [](streams["v1"].pc \in {"spawn", "read", "yield", "sigint", "wait", "kill",
                                "backoff", "sleep"} =>
             (BackoffFloor <= streams["v1"].backoff /\ streams["v1"].backoff <= BackoffCap))

\* the delay slept after a run of restarts without a byte has reached the cap
C5_Witness ==
    /\ streams["v1"].pc = "sleep"
    /\ ~streams["v1"].any_bytes
    /\ streams["v1"].backoff = BackoffCap

\* C24 (as stated): the delay slept after an attempt without a byte is the
\* starting value when no attempt without a byte precedes it (the delay
\* variable still holds the starting value), and 1.7 times the previous
\* delay, capped, after that.
C24_AsStated ==
    [][(/\ streams["v1"].pc = "backoff"
        /\ streams'["v1"].pc = "sleep"
        /\ ~streams["v1"].any_bytes) =>
            LET before == streams["v1"].backoff
                slept == streams'["v1"].backoff
            IN  IF before = BackoffFloor
                THEN slept = BackoffFloor
                ELSE slept = (IF (before * 17) \div 10 < BackoffCap
                              THEN (before * 17) \div 10 ELSE BackoffCap)]_vars

\* C25: a teardown sends the interrupt first, then waits, and kills only
\* when the interrupt could not be sent or the process is still running
\* when the wait times out; after a wait that found the process ended
\* there is no kill.
C25_TeardownOrder ==
    [][\A s \in Streams :
          LET now == streams[s]
              next == streams'[s]
          IN  /\ (next.pc = "sigint" /\ now.pc # "sigint") =>
                     now.pc \in {"read", "yield"} /\ ~next.sigint
              /\ (next.pc = "wait" /\ now.pc # "wait") =>
                     /\ now.pc = "sigint"
                     /\ now.proc = "running" => next.sigint
              /\ (next.pc = "kill" /\ now.pc # "kill") =>
                     \/ now.pc = "sigint" /\ ~next.sigint
                     \/ now.pc = "wait" /\ now.sigint /\ now.proc = "running"
              /\ (now.pc = "wait" /\ now.proc \in {"dead", "reaped"} /\ next.pc # "wait") =>
                     next.pc \in {"closed", "backoff"}
              /\ (now.proc = "running" /\ next.proc # "running") =>
                     \/ now.pc = "kill"
                     \/ next.proc = "dead" /\ next.pc = now.pc]_vars

\* the wait on an interrupted process that keeps running has timed out:
\* the kill is next
C25_Witness ==
    /\ streams["v1"].pc = "kill"
    /\ streams["v1"].sigint
    /\ streams["v1"].proc = "running"
    /\ streams["v1"].mood = "hung"

\* C26: a stream owns at most one running pipeline process: while the
\* supervisor is between two processes (backoff, sleep, spawn) or has
\* ended, the previous process is not running, and a process is started
\* only by a supervisor whose previous process has ended.
C26_OneProcessPerStream ==
    /\ [](\A s \in Streams :
             streams[s].pc \in {"backoff", "sleep", "spawn", "closed"}
                 => streams[s].proc # "running")
    /\ [][\A s \in Streams :
             (streams[s].pc = "spawn" /\ streams'[s].proc = "running")
                 => streams[s].proc # "running"]_vars

\* the supervisor is about to start the next process after it killed one
\* that ignored the interrupt
C26_Witness ==
    /\ streams["v1"].pc = "spawn"
    /\ streams["v1"].proc = "dead"
    /\ streams["v1"].mood = "hung"
    /\ streams["v1"].sigint

\* C12 (as stated): the supervisor never spawns a pipeline process for a
\* stream whose viewer has already disconnected: after a disconnect an end
\* of output leads to teardown and not to a restart.
C12_AsStated ==
    [][(/\ streams["v1"].pc = "spawn"
        /\ streams["v1"].proc \in {"dead", "reaped"}
        /\ streams["v1"].viewer = "gone") =>
           streams'["v1"].proc # "running"]_vars

\* C13: while the viewer stays connected, every end of output of the
\* pipeline process is followed by another spawn attempt after the backoff
\* delay, however many came before, and between the end of output and
\* that attempt the supervisor never ends the request.
C13_RetryWithoutLimit ==
    /\ (streams["v1"].pc = "sigint" /\ ~streams["v1"].closing)
           ~> (streams["v1"].pc = "spawn" \/ streams["v1"].viewer = "gone")
    /\ [][(/\ ~streams["v1"].closing
           /\ streams["v1"].pc \in {"sigint", "wait", "kill", "backoff", "sleep"}) =>
              streams'["v1"].pc \in {"sigint", "wait", "kill", "backoff", "sleep", "spawn"}]_vars

\* a connected viewer's stream about to spawn again after the delay has
\* reached the cap
C13_Witness ==
    /\ streams["v1"].pc = "spawn"
    /\ streams["v1"].viewer = "connected"
    /\ streams["v1"].proc = "reaped"
    /\ streams["v1"].backoff = BackoffCap

---------------------------------------------------------------------------
(* Pipeline spec properties (SpecTune) *)

\* the positions of a declared member list whose id an entry of the
\* registry holds
Resolvable(declared) ==
    {i \in 1..Len(declared) :
        \E k \in 1..Len(CHANNELS) : heap[CHANNELS[k]].id = declared[i]}

\* the j-th resolvable position of a declared member list
NthResolvable(declared, j) ==
    CHOOSE i \in Resolvable(declared) :
        Cardinality({k \in Resolvable(declared) : k < i}) = j - 1

\* the supervisor of stream v1 starts a pipeline process
Spawns == streams["v1"].pc = "spawn" /\ streams'["v1"].pc = "read"

\* C6: a spec built for a mosaic channel whose declared members (at most
\* 4, counted as declared) resolve at 2 or more positions is a composite
\* with exactly one input per resolvable position, in declared order, at
\* most 4 inputs, and audio taken from input 0, the first resolvable member.
C6_MosaicResolution ==
    [][LET declared == heap[streams["v1"].ch].mosaic_sources
           cmd == streams'["v1"].cmd
       IN  (/\ Spawns
            /\ Len(declared) <= 4
            /\ Cardinality(Resolvable(declared)) >= 2) =>
               /\ cmd.kind = "mosaic"
               /\ Len(cmd.inputs) = Cardinality(Resolvable(declared))
               /\ Len(cmd.inputs) <= 4
               /\ \A j \in 1..Len(cmd.inputs) :
                      /\ cmd.inputs[j].src \in Range(CHANNELS)
                      /\ heap[cmd.inputs[j].src].id = declared[NthResolvable(declared, j)]
                      /\ cmd.inputs[j].url = auth_url(heap[cmd.inputs[j].src])
               /\ cmd.audio_input = 0]_vars

\* a running composite of three inputs built for a mosaic that declares
\* four members, of which three still exist
C6_Witness ==
    /\ streams["v1"].proc = "running"
    /\ streams["v1"].cmd.kind = "mosaic"
    /\ Len(streams["v1"].cmd.inputs) = 3
    /\ Len(heap[streams["v1"].ch].mosaic_sources) = 4
    /\ Cardinality(Resolvable(heap[streams["v1"].ch].mosaic_sources)) = 3

\* C7: a spec built for a mosaic channel with fewer than 2 resolvable
\* members is never a composite and never without input: it has exactly
\* one input, and the fallback recursion took exactly one step.
C7_FallbackDegeneracy ==
    [][LET declared == heap[streams["v1"].ch].mosaic_sources
           cmd == streams'["v1"].cmd
       IN  (/\ Spawns
            /\ Len(declared) >= 2
            /\ Cardinality(Resolvable(declared)) < 2) =>
               /\ cmd.kind = "single"
               /\ Len(cmd.filter) = 0
               /\ Len(cmd.inputs) = 1
               /\ cmd.fallback = 1]_vars

\* a running single-input pipeline built by the fallback for a mosaic of
\* which exactly one member still exists
C7_Witness ==
    /\ streams["v1"].proc = "running"
    /\ streams["v1"].cmd.fallback = 1
    /\ Cardinality(Resolvable(heap[streams["v1"].ch].mosaic_sources)) = 1

\* C8 (as stated): no pipeline process is spawned for a tuned mosaic channel
\* with fewer than 2 resolvable members whose URI is only the mosaic://
\* placeholder; the tune request fails instead.
C8_AsStated ==
    ~(/\ streams["v1"].resp = "stream"
      /\ streams["v1"].proc = "running"
      /\ streams["v1"].cmd.fallback = 1
      /\ streams["v1"].cmd.inputs[1].url.scheme = "mosaic")

---------------------------------------------------------------------------
(* Credential injection (SpecAuth) *)

\* urllib.parse.unquote of a percent-encoded text
RECURSIVE unquote(_)
unquote(s) ==
    IF Len(s) = 0 THEN <<>>
    ELSE IF Head(s) = "%" /\ Len(s) >= 3
         THEN LET code == SubSeq(s, 2, 3)
                  c == CASE code = <<"4", "0">> -> "@"
                         [] code = <<"3", "A">> -> ":"
                         [] code = <<"2", "F">> -> "/"
                         [] code = <<"2", "0">> -> " "
                         [] code = <<"2", "5">> -> "%"
                         [] OTHER -> "?"
              IN  <<c>> \o unquote(SubSeq(s, 4, Len(s)))
         ELSE <<Head(s)>> \o unquote(Tail(s))

\* the text can stand in the userinfo of an authority component
Encoded(s) == \A i \in 1..Len(s) : s[i] \notin {"@", ":", "/", " "}

\* the input URL of the running pipeline of stream v1 carries the channel's
\* credentials percent-encoded, host unchanged
Injected(c, url) ==
    /\ url.scheme = c.rtsp.scheme
    /\ url.host = c.rtsp.host
    /\ Encoded(url.user) /\ unquote(url.user) = c.username
    /\ Encoded(url.pass) /\ unquote(url.pass) = c.password

\* C23 (as stated): the pipeline input carries the channel's credentials
\* exactly when the scheme is RTSP, the URI embeds none, and the channel
\* has a non-empty username and a non-empty password; otherwise it is the
\* stored URI.
C23_AsStated ==
    streams["v1"].proc = "running" =>
        LET c == heap[streams["v1"].ch]
            url == streams["v1"].cmd.inputs[1].url
        IN  IF /\ c.rtsp.scheme = "rtsp"
               /\ Len(c.rtsp.user) = 0 /\ Len(c.rtsp.pass) = 0
               /\ Len(c.username) > 0 /\ Len(c.password) > 0
            THEN Injected(c, url) /\ url # c.rtsp
            ELSE url = c.rtsp

\* C23 (amended): the pipeline input carries the channel's credentials
\* exactly when the scheme is RTSP, the URI embeds none, and the channel
\* has a non-empty username or a non-empty password; otherwise it is the
\* stored URI.
C23_CredentialInjection ==
    streams["v1"].proc = "running" =>
        LET c == heap[streams["v1"].ch]
            url == streams["v1"].cmd.inputs[1].url
        IN  IF /\ c.rtsp.scheme = "rtsp"
               /\ Len(c.rtsp.user) = 0 /\ Len(c.rtsp.pass) = 0
               /\ (Len(c.username) > 0 \/ Len(c.password) > 0)
            THEN Injected(c, url) /\ url # c.rtsp
            ELSE url = c.rtsp

\* a pipeline runs on an RTSP source without embedded credentials whose
\* channel has the user name "a" and the password "p@:"
C23_Witness ==
    /\ streams["v1"].proc = "running"
    /\ heap[streams["v1"].ch].rtsp = Url("rtsp", <<>>, <<>>, "camA")
    /\ heap[streams["v1"].ch].username = <<"a">>
    /\ heap[streams["v1"].ch].password = <<"p", "@", ":">>
    /\ streams["v1"].cmd.inputs[1].url.pass = <<"p", "%", "4", "0", "%", "3", "A">>

---------------------------------------------------------------------------
(* Properties of streams under registry edits (SpecEdit) *)

\* the supervisor of stream s is running
Active(s) == streams[s].pc \notin {"none", "done", "closed", "failed"}

\* C27: a step that changes the registry or an entry changes no stream; an
\* active stream stays bound to the entry its number resolved to, which
\* stays alive when it is removed from the registry; every spawn builds
\* the pipeline spec from that entry's fields and the registry of the
\* moment.
C27_EditsKeepStreams ==
    /\ [](\A s \in Streams : Active(s) => IsObj(heap, streams[s].ch))
    /\ [][\A s \in Streams :
             /\ (heap' # heap \/ CHANNELS' # CHANNELS) => streams'[s] = streams[s]
             /\ Active(s) => streams'[s].ch = streams[s].ch
             /\ (streams[s].pc = "spawn" /\ streams'[s].proc = "running") =>
                    streams'[s].cmd = ffmpeg_cmd_for_channel(heap, CHANNELS,
                                          heap[streams[s].ch], streams[s].ch)]_vars

\* the stream tuned to the mosaic runs its second or later process on the
\* mosaic's own placeholder, built after the mosaic was removed from the
\* registry and its member 2 was renumbered
C27_Witness ==
    /\ streams["v1"].ch = 3
    /\ 3 \notin Range(CHANNELS)
    /\ IsObj(heap, 2) /\ heap[2].id = <<"7">>
    /\ streams["v1"].proc = "running"
    /\ streams["v1"].backoff > BackoffFloor
    /\ streams["v1"].cmd.fallback = 1

\* the entries the member ids of a mosaic resolve to
MembersOf(h, C, o) == resolve_sources(h, C, h[o].mosaic_sources)

\* C28 (as stated): a reorder_rows or on_edit_number step leaves the
\* sequence of entries that the member ids of every mosaic channel resolve
\* to as it was.
C28_AsStated ==
    [][(\/ \E src \in 0..2, dst \in 0..2 : reorder_rows(src, dst)
        \/ \E row \in 0..2 : on_edit_number(row, <<"7">>)) =>
            \A i \in 1..Len(CHANNELS) :
                Len(heap[CHANNELS[i]].mosaic_sources) > 0 =>
                    MembersOf(heap', CHANNELS', CHANNELS[i])
                        = MembersOf(heap, CHANNELS, CHANNELS[i])]_vars

\* C29 (as stated): no input of a running composite pipeline is the
\* mosaic channel itself, another mosaic channel, or a mosaic:// URI.
C29_AsStated ==
    \A s \in Streams :
        (streams[s].proc = "running" /\ streams[s].cmd.kind = "mosaic") =>
            \A j \in 1..Len(streams[s].cmd.inputs) :
                /\ streams[s].cmd.inputs[j].url.scheme # "mosaic"
                /\ streams[s].cmd.inputs[j].src # streams[s].ch

---------------------------------------------------------------------------
(* Properties of the status checks (SpecProbe) *)

\* C30 (as stated): the status a ProbeWorker reports is recorded on the
\* channel the worker was started for, and on no other channel, whatever
\* happened to the rows since the probe was started.
C30_AsStated ==
    [][\A w \in probe.workers, status \in {"OK", "Error"} :
          on_probe_result(w, status) =>
              /\ w.ch \in Range(CHANNELS) =>
                     (w.ch \in DOMAIN probe'.status /\ probe'.status[w.ch] = status)
              /\ \A o \in Range(CHANNELS) \ {w.ch} :
                     (o \in DOMAIN probe'.status /\ probe'.status[o] = StatusOf(o))
                         \/ (o \notin DOMAIN probe'.status /\ StatusOf(o) = "Idle")]_vars

---------------------------------------------------------------------------
(* Concurrency properties (SpecConc) *)

\* C9 (as stated): the identifier sequence a registry read reports is the
\* identifier sequence of one registry state that existed between two
\* operations while the read ran; it never shows an identifier twice or a
\* partially applied operation.
C9_AsStated ==
    reader.pc = "done" => reader.rows \in hist.reader

\* C10 (as stated): a built pipeline spec is the spec of one version of the
\* channel and registry that existed between two operator edits while it was
\* built, all pre-edit or all post-edit, never a mixture.
C10_AsStated ==
    builder.pc = "done" => builder.cmd \in hist.builder

---------------------------------------------------------------------------
(* Properties of concurrent viewers (SpecViewers) *)

C14_SpawnFailureFatal ==
    [][\A s \in Streams :
          /\ (/\ streams[s].pc = "spawn"
              /\ streams'[s].pc \notin {"spawn", "read"}) =>
                 /\ streams'[s].pc = "failed"
                 /\ streams'[s].proc = streams[s].proc
                 /\ streams'[s].pid = streams[s].pid
                 /\ streams'[s].backoff = streams[s].backoff
          /\ streams[s].pc = "failed" => streams'[s] = streams[s]]_vars

\* the first request ended with a failed start; the request after it has
\* started a pipeline process
C14_Witness ==
    /\ streams["v1"].pc = "failed"
    /\ streams["v1"].proc = "none"
    /\ streams["v2"].pc = "read"
    /\ streams["v2"].proc = "running"

\* C15: when stop_http_server returns, no stream is active and no pipeline
\* process is running.
C15_StopCancelsAll ==
    [][(gui.pc = "stop" /\ gui'.pc = "idle") =>
          \A s \in Streams :
              /\ streams'[s].pc \in {"none", "done", "closed", "failed"}
              /\ streams'[s].proc # "running"]_vars

\* stop_http_server has returned after a stream whose viewer had tuned in
\* before the stop was torn down
C15_Witness ==
    /\ gui.pc = "idle"
    /\ server = ServerDown
    /\ streams["v1"].pc = "closed"
    /\ streams["v1"].proc = "reaped"
    /\ streams["v2"].waiting

\* C31 (as stated): a server is made only when none is starting or
\* serving, and once a call of stop_http_server has returned the server
\* thread is not serving and the running flag is false, until the next
\* start_http_server.
C31_AsStated ==
    /\ [](hist.stopped => (server.loop # "serving" /\ ~server.running))
    /\ [][(server'.loop = "starting" /\ server.loop # "starting")
              => server.loop = "down"]_vars

\* C16 (as stated): a tune request that has arrived at a serving server is
\* taken up by a worker of its own while every other viewer is still
\* connected: it does not wait for another viewer to disconnect.
C16_AsStated ==
    \A s \in Streams :
        (streams[s].waiting /\ streams[s].pc = "none")
            ~> (\/ streams[s].pc # "none"
                \/ server.shutdown
                \/ server.loop # "serving"
                \/ \E t \in Streams \ {s} : streams[t].viewer = "gone")

=============================================================================
